---- MODULE Spec2Model ----
(***************************************************************************)
(* Agri-Tech Data Analyzer: the /analyze pipeline of src/app.py            *)
(* (load -> validate/clean -> statistics -> visualization series) and the  *)
(* standalone variant of src/data_analyzer.py.                             *)
(*                                                                         *)
(* A DataFrame is [columns : set of column names, rows : sequence of rows],*)
(* a row being a function from the column names to cells.  A cell is       *)
(* missing (NaN / NaT), a parsable value (an integer standing for the date *)
(* or the real number read from the file) or a string that neither         *)
(* pd.to_datetime nor pd.to_numeric can parse.  Dates are day numbers,     *)
(* day 1 being a Monday and day 7 a Sunday.                                *)
(***************************************************************************)
EXTENDS Integers, Sequences, FiniteSets, TLC

\* Largest number of data rows of an uploaded table.
MaxRows == 2

---------------------------------------------------------------------------
(* Cells *)

NaN == [k |-> "nan"]
Num(v) == [k |-> "num", v |-> v]
Bad == [k |-> "str"]

isnull(c) == c.k = "nan"
IsNum(c) == c.k = "num"

None == <<>>
Some(x) == <<x>>

Max(S) == CHOOSE x \in S : \A y \in S : y <= x
Min(S) == CHOOSE x \in S : \A y \in S : x <= y

---------------------------------------------------------------------------
(* Column names and Python's str operations on them.  TLC's strings are    *)
(* atomic, so Chars spells each column name of the model out.              *)

ColumnNames == {"Date", "date", "Last_Update", "Rainfall_mm", "rainfall(mm)", "Rain_cm", "Crop_Growth_cm", "crop_growth", "humidity", "Temperature_C"}

Chars(n) ==
       CASE n = "Date" -> <<"D", "a", "t", "e">>
         [] n = "date" -> <<"d", "a", "t", "e">>
         [] n = "Last_Update" -> <<"L", "a", "s", "t", "_", "U", "p", "d", "a", "t", "e">>
         [] n = "Rainfall_mm" -> <<"R", "a", "i", "n", "f", "a", "l", "l", "_", "m", "m">>
         [] n = "rainfall(mm)" -> <<"r", "a", "i", "n", "f", "a", "l", "l", "(", "m", "m", ")">>
         [] n = "Rain_cm" -> <<"R", "a", "i", "n", "_", "c", "m">>
         [] n = "Crop_Growth_cm" -> <<"C", "r", "o", "p", "_", "G", "r", "o", "w", "t", "h", "_", "c", "m">>
         [] n = "crop_growth" -> <<"c", "r", "o", "p", "_", "g", "r", "o", "w", "t", "h">>
         [] n = "humidity" -> <<"h", "u", "m", "i", "d", "i", "t", "y">>
         [] n = "Temperature_C" -> <<"T", "e", "m", "p", "e", "r", "a", "t", "u", "r", "e", "_", "C">>

\* str.lower(), on the letters the column names use
LowerChar(c) ==
       CASE c = "C" -> "c"
         [] c = "D" -> "d"
         [] c = "G" -> "g"
         [] c = "L" -> "l"
         [] c = "R" -> "r"
         [] c = "T" -> "t"
         [] c = "U" -> "u"
         [] OTHER -> c

lower(s) == [i \in 1..Len(s) |-> LowerChar(s[i])]

StartsWith(s, old) ==
  /\ Len(old) <= Len(s)
  /\ SubSeq(s, 1, Len(old)) = old

\* str.replace(old, ''): the non-overlapping occurrences, left to right
RECURSIVE remove(_, _)
remove(s, old) ==
  IF s = <<>> THEN <<>>
  ELSE IF StartsWith(s, old) THEN remove(SubSeq(s, Len(old) + 1, Len(s)), old)
  ELSE <<Head(s)>> \o remove(Tail(s), old)

\* a in b, for strings
contains(a, b) ==
  \E i \in 0..(Len(b) - Len(a)) : SubSeq(b, i + 1, i + Len(a)) = a

\* .lower().replace('_', '').replace('mm', '').replace('cm', '')
normalize(s) == remove(remove(remove(lower(s), <<"_">>), <<"m", "m">>), <<"c", "m">>)

required_columns == <<"Date", "Rainfall_mm", "Crop_Growth_cm">>

Range(s) == {s[i] : i \in 1..Len(s)}

\* the list `similar` of validate_data, as a set
similar(req_col, columns) ==
  {col \in columns : contains(normalize(Chars(req_col)), normalize(Chars(col)))}

\* the errors validate_data collects for the column names (app.py)
MissingColumnErrors(columns) ==
  LET Miss(req_col) == req_col \notin columns /\ similar(req_col, columns) = {}
      missing == SelectSeq(required_columns, Miss)
  IN [i \in 1..Len(missing) |-> [kind |-> "Missing required column", arg |-> missing[i]]]

---------------------------------------------------------------------------
(* DataFrames *)

DataFrame(columns, rows) == [columns |-> columns, rows |-> rows]

Rows(df) == 1..Len(df.rows)

\* df.isnull().sum().sum(): the missing cells of all columns
NullCount(df) ==
  Cardinality({<<i, c>> \in Rows(df) \X df.columns : isnull(df.rows[i][c])})

\* df.isnull().any().any()
AnyNull(df) == \E i \in Rows(df) : \E c \in df.columns : isnull(df.rows[i][c])

\* fillna(method='ffill'): every column, the nearest preceding non-missing cell
ffill(df) ==
  LET Prev(i, c) == {j \in 1..(i - 1) : ~isnull(df.rows[j][c])}
      Fill(i, c) == IF isnull(df.rows[i][c]) /\ Prev(i, c) # {}
                    THEN df.rows[Max(Prev(i, c))][c]
                    ELSE df.rows[i][c]
  IN DataFrame(df.columns, [i \in Rows(df) |-> [c \in df.columns |-> Fill(i, c)]])

\* fillna(method='bfill'): every column, the nearest following non-missing cell
bfill(df) ==
  LET Foll(i, c) == {j \in (i + 1)..Len(df.rows) : ~isnull(df.rows[j][c])}
      Fill(i, c) == IF isnull(df.rows[i][c]) /\ Foll(i, c) # {}
                    THEN df.rows[Min(Foll(i, c))][c]
                    ELSE df.rows[i][c]
  IN DataFrame(df.columns, [i \in Rows(df) |-> [c \in df.columns |-> Fill(i, c)]])

\* the forward fill alone: leading missing cells stay missing
fillna_forward_only(df) == ffill(df)

\* df.fillna(method='ffill').fillna(method='bfill')
fillna(df) == bfill(ffill(df))

\* pd.to_datetime / pd.to_numeric raise on a cell they cannot parse; df[col]
\* raises KeyError when no column has exactly that name.  Missing cells stay
\* missing (NaT / NaN).
ConversionFails(df, col) ==
  \/ col \notin df.columns
  \/ \E i \in Rows(df) : df.rows[i][col] = Bad

\* df.loc[df['Rainfall_mm'] < 0, 'Rainfall_mm'] = 0
IsNegative(c) == IsNum(c) /\ c.v < 0

ClampRainfall(df) ==
  DataFrame(df.columns,
            [i \in Rows(df) |->
               [df.rows[i] EXCEPT !["Rainfall_mm"] = IF IsNegative(@) THEN Num(0) ELSE @]])

\* df[df['Crop_Growth_cm'] >= 0]: a missing growth compares False
KeepsGrowth(row) == IsNum(row["Crop_Growth_cm"]) /\ row["Crop_Growth_cm"].v >= 0

\* a symmetric policy: negative growth clamped to 0 like rainfall, no row dropped
ClampNegativeGrowth(df) ==
  DataFrame(df.columns,
            [i \in Rows(df) |->
               [df.rows[i] EXCEPT !["Crop_Growth_cm"] = IF IsNegative(@) THEN Num(0) ELSE @]])

DropNegativeGrowth(df) == DataFrame(df.columns, SelectSeq(df.rows, KeepsGrowth))

Permutations1(n) == {p \in [1..n -> 1..n] : \A i, j \in 1..n : p[i] = p[j] => i = j}

\* Whether row a may stand right before row b (input positions pa, pb) in the
\* result of sort_values('Date'): dates ascending, NaT last in input order.
\* kind defaults to 'quicksort', which pandas documents as not stable: rows
\* of equal date come out in any order.
MayPrecede(a, pa, b, pb) ==
  IF isnull(a["Date"]) THEN isnull(b["Date"]) /\ pa < pb
  ELSE isnull(b["Date"]) \/ a["Date"].v <= b["Date"].v

\* df.sort_values('Date').reset_index(drop=True): the possible results
sort_values(df) ==
  LET n == Len(df.rows)
      Ok(p) == \A i \in 1..(n - 1) :
                 MayPrecede(df.rows[p[i]], p[i], df.rows[p[i + 1]], p[i + 1])
  IN {DataFrame(df.columns, [i \in 1..n |-> df.rows[p[i]]]) :
        p \in {q \in Permutations1(n) : Ok(q)}}

Warning(kind, n) == [kind |-> kind, n |-> n]

\* validate_data of app.py: the set of results (df, errors, warnings) it can
\* return; df is None when errors is not empty.  filled is the local df
\* after line 68 (None when the column check returns before it).
validate_data(df) ==
  LET column_errors == MissingColumnErrors(df.columns)
      any_null == AnyNull(df)
      warnings1 == IF any_null THEN <<Warning("missing values", NullCount(df))>> ELSE <<>>
      df1 == IF any_null THEN fillna(df) ELSE df
      failing == SelectSeq(required_columns, LAMBDA col : ConversionFails(df1, col))
      rain_negative == \E i \in Rows(df1) : IsNegative(df1.rows[i]["Rainfall_mm"])
      warnings2 == IF rain_negative
                   THEN Append(warnings1, Warning("negative rainfall", 0))
                   ELSE warnings1
      df2 == IF rain_negative THEN ClampRainfall(df1) ELSE df1
      growth_negative == \E i \in Rows(df2) : IsNegative(df2.rows[i]["Crop_Growth_cm"])
      warnings3 == IF growth_negative
                   THEN Append(warnings2, Warning("negative growth", 0))
                   ELSE warnings2
      df3 == IF growth_negative THEN DropNegativeGrowth(df2) ELSE df2
  IN IF column_errors # <<>>
     THEN {[df |-> None, errors |-> column_errors, warnings |-> <<>>, filled |-> None]}
     ELSE IF failing # <<>>
     THEN {[df |-> None,
            errors |-> <<[kind |-> "Data type conversion failed", arg |-> failing[1]]>>,
            warnings |-> warnings1, filled |-> Some(df1)]}
     ELSE {[df |-> Some(d), errors |-> <<>>, warnings |-> warnings3, filled |-> Some(df1)] :
             d \in sort_values(df3)}

---------------------------------------------------------------------------
(* Statistics *)

\* the non-missing values of a column
Values(df, col) == {i \in Rows(df) : ~isnull(df.rows[i][col])}

RECURSIVE SumOver(_, _)
SumOver(S, f) ==
  IF S = {} THEN 0
  ELSE LET x == CHOOSE y \in S : TRUE IN f[x] + SumOver(S \ {x}, f)

Column(df, col) == [i \in Rows(df) |-> IF IsNum(df.rows[i][col]) THEN df.rows[i][col].v ELSE 0]

\* round(num / den, 2), in hundredths.  Python rounds a tie to even; num/den
\* is a tie in the third decimal only when 8 divides den.
Round2(num, den) == (200 * num + den) \div (2 * den)

\* Series.mean(), .max(), .sum() skip missing cells; the mean and the max of
\* no value are NaN, the sum of no value is 0.
mean2(df, col) ==
  IF Values(df, col) = {} THEN NaN
  ELSE Num(Round2(SumOver(Values(df, col), Column(df, col)), Cardinality(Values(df, col))))

max2(df, col) ==
  IF Values(df, col) = {} THEN NaN
  ELSE Num(Round2(Max({Column(df, col)[i] : i \in Values(df, col)}), 1))

sum2(df, col) == Num(Round2(SumOver(Values(df, col), Column(df, col)), 1))

\* floor(acc + rem / q) after multiplying by each of factors in turn
RECURSIVE MulDiv(_, _, _, _)
MulDiv(acc, rem, q, factors) ==
  IF factors = <<>> THEN acc
  ELSE MulDiv(acc * Head(factors) + (rem * Head(factors)) \div q,
              (rem * Head(factors)) % q, q, Tail(factors))

\* the largest k in lo..hi with (2k - 1)^2 <= t  (lo satisfies it)
RECURSIVE HalfRoot(_, _, _)
HalfRoot(t, lo, hi) ==
  IF lo = hi THEN lo
  ELSE LET mid == (lo + hi + 1) \div 2
       IN IF (2 * mid - 1) * (2 * mid - 1) <= t
          THEN HalfRoot(t, mid, hi)
          ELSE HalfRoot(t, lo, mid - 1)

\* round(x.corr(y), 4), in ten-thousandths: Pearson's r over the rows where
\* both cells are present; NaN with fewer than two such rows or when either
\* series is constant.  |r| = sqrt(cov^2 / (vx * vy)) is rounded exactly:
\* k = round(10^4 |r|) is the largest k with (2k - 1)^2 <= 4 * 10^8 * r^2.
corr4(df, xcol, ycol) ==
  LET S == Values(df, xcol) \cap Values(df, ycol)
      n == Cardinality(S)
      x == Column(df, xcol)
      y == Column(df, ycol)
      sx == SumOver(S, x)
      sy == SumOver(S, y)
      cov == n * SumOver(S, [i \in Rows(df) |-> x[i] * y[i]]) - sx * sy
      vx == n * SumOver(S, [i \in Rows(df) |-> x[i] * x[i]]) - sx * sx
      vy == n * SumOver(S, [i \in Rows(df) |-> y[i] * y[i]]) - sy * sy
      t == MulDiv((cov * cov) \div (vx * vy), (cov * cov) % (vx * vy), vx * vy,
                  <<4, 10, 10, 10, 10, 10, 10, 10, 10>>)
      k == HalfRoot(t, 0, 10000)
  IN IF n < 2 \/ vx = 0 \/ vy = 0 THEN NaN
     ELSE Num(IF cov < 0 THEN 0 - k ELSE k)

\* calculate_statistics of app.py; NaT.strftime raises when the dataset has no
\* date (no record, or every Date missing)
StatisticsRaises(df) == Values(df, "Date") = {}

calculate_statistics(df) ==
  [total_records |-> Len(df.rows),
   date_range |-> <<Min({Column(df, "Date")[i] : i \in Values(df, "Date")}),
                    Max({Column(df, "Date")[i] : i \in Values(df, "Date")})>>,
   avg_rainfall |-> mean2(df, "Rainfall_mm"),
   max_rainfall |-> max2(df, "Rainfall_mm"),
   total_rainfall |-> sum2(df, "Rainfall_mm"),
   avg_growth |-> mean2(df, "Crop_Growth_cm"),
   max_growth |-> max2(df, "Crop_Growth_cm"),
   correlation |-> corr4(df, "Rainfall_mm", "Crop_Growth_cm")]

---------------------------------------------------------------------------
(* Visualization series *)

\* resample('W') is W-SUN: a date belongs to the window ending on the first
\* Sunday on or after it
WeekEnd(d) == 7 * ((d + 6) \div 7)

RECURSIVE Gcd(_, _)
Gcd(a, b) == IF b = 0 THEN a ELSE Gcd(b, a % b)

\* an exact mean, as a reduced fraction
Mean(num, den) == [k |-> "mean", num |-> num \div Gcd(num, den), den |-> den \div Gcd(num, den)]

\* a grouping by week that emits only the windows that hold a record
resample_W_nonempty(df) ==
  LET weeks == {WeekEnd(Column(df, "Date")[i]) : i \in Values(df, "Date")}
      In(w) == {i \in Values(df, "Date") : WeekEnd(Column(df, "Date")[i]) = w}
      Rain(w) == In(w) \cap Values(df, "Rainfall_mm")
      Growth(w) == In(w) \cap Values(df, "Crop_Growth_cm")
      Nth(j) == CHOOSE w \in weeks : Cardinality({v \in weeks : v < w}) = j - 1
  IN [j \in 1..Cardinality(weeks) |->
        [Date |-> Nth(j),
         Rainfall_mm |-> SumOver(Rain(Nth(j)), Column(df, "Rainfall_mm")),
         Crop_Growth_cm |-> IF Growth(Nth(j)) = {} THEN NaN
                            ELSE Mean(SumOver(Growth(Nth(j)), Column(df, "Crop_Growth_cm")),
                                      Cardinality(Growth(Nth(j))))]]

\* df.set_index('Date').resample('W').agg({'Rainfall_mm': 'sum',
\* 'Crop_Growth_cm': 'mean'}).reset_index(): one row per window from the one
\* of the first date to the one of the last; a window without records has
\* sum 0 and mean NaN
resample_W(df) ==
  LET dates == {Column(df, "Date")[i] : i \in Values(df, "Date")}
      first == WeekEnd(Min(dates))
      last == WeekEnd(Max(dates))
      In(w) == {i \in Values(df, "Date") : WeekEnd(Column(df, "Date")[i]) = w}
      Rain(w) == In(w) \cap Values(df, "Rainfall_mm")
      Growth(w) == In(w) \cap Values(df, "Crop_Growth_cm")
  IN [j \in 1..((last - first) \div 7 + 1) |->
        LET w == first + 7 * (j - 1)
        IN [Date |-> w,
            Rainfall_mm |-> SumOver(Rain(w), Column(df, "Rainfall_mm")),
            Crop_Growth_cm |-> IF Growth(w) = {} THEN NaN
                               ELSE Mean(SumOver(Growth(w), Column(df, "Crop_Growth_cm")),
                                         Cardinality(Growth(w)))]]

\* np.polyfit raises on an empty x and (the SVD does not converge) on a
\* missing rainfall
VisualizationRaises(df) ==
  \/ df.rows = <<>>
  \/ \E i \in Rows(df) : isnull(df.rows[i]["Rainfall_mm"])

\* create_visualizations of app.py: the numeric series the figure is made of
create_visualizations(df) ==
  [daily |-> [i \in Rows(df) |->
                <<df.rows[i]["Date"], df.rows[i]["Rainfall_mm"], df.rows[i]["Crop_Growth_cm"]>>],
   correlation |-> corr4(df, "Rainfall_mm", "Crop_Growth_cm"),
   weekly |-> resample_W(df)]

---------------------------------------------------------------------------
(* Uploaded files.  A file name is the sequence of its characters; a       *)
(* content is the table pd.read_csv / pd.read_excel makes of the bytes, or *)
(* bytes neither can parse.                                                *)

Unparsable == [parsable |-> FALSE, table |-> DataFrame({}, <<>>)]
Parsable(t) == [parsable |-> TRUE, table |-> t]

NoName == <<>>
NotesTxt == <<"n", ".", "t", "x", "t">>
DataCsv == <<"d", ".", "c", "s", "v">>
MyDataCsv == <<"a", " ", "b", ".", "c", "s", "v">>
My_DataCsv == <<"a", "_", "b", ".", "c", "s", "v">>

ALLOWED_EXTENSIONS == {<<"c", "s", "v">>, <<"x", "l", "s", "x">>, <<"x", "l", "s">>}

\* '.' in filename and filename.rsplit('.', 1)[1].lower() in ALLOWED_EXTENSIONS
allowed_file(filename) ==
  /\ \E i \in 1..Len(filename) : filename[i] = "."
  /\ LET dot == Max({i \in 1..Len(filename) : filename[i] = "."})
     IN lower(SubSeq(filename, dot + 1, Len(filename))) \in ALLOWED_EXTENSIONS

\* werkzeug's secure_filename, on the names of the model: white space
\* becomes an underscore
secure_filename(filename) ==
  [i \in 1..Len(filename) |-> IF filename[i] = " " THEN "_" ELSE filename[i]]

FileNames == {NoName, NotesTxt, DataCsv, MyDataCsv, My_DataCsv}

\* the paths under app.config['UPLOAD_FOLDER']
Paths == {secure_filename(f) : f \in FileNames}

NoFile == [present |-> FALSE, filename |-> NoName, content |-> Unparsable]
File(filename, content) == [present |-> TRUE, filename |-> filename, content |-> content]

---------------------------------------------------------------------------
(* State *)

VARIABLES
  requests,   \* the /analyze requests in progress: id -> the handler's locals
  uploads     \* the uploads folder: path -> None or Some(content)

vars == <<requests, uploads>>

Request(file) ==
  [file |-> file,            \* request.files['file']
   pc |-> "start",
   filepath |-> NoName,
   df |-> None,
   filled |-> None,          \* df after the missing values are handled (line 68)
   errors |-> <<>>,
   warnings |-> <<>>,
   stats |-> None,
   html_plot |-> None,
   calls |-> <<>>,           \* the pipeline stages called so far
   response |-> None,
   rerun |-> None]           \* a second run on the cleaned dataset

Response(code, error, stats, warnings, plot) ==
  [code |-> code, success |-> error = <<>>, error |-> error,
   stats |-> stats, warnings |-> warnings, plot |-> plot]

Error(kind) == <<[kind |-> kind, arg |-> ""]>>

Ids == DOMAIN requests

Update(r, new) == requests' = [requests EXCEPT ![r] = new]

Finish(req, response) == [req EXCEPT !.pc = "done", !.response = Some(response)]

---------------------------------------------------------------------------
(* analyze() of app.py, one action per stage; the stages between two file  *)
(* operations touch only the request's own locals.                         *)

\* lines 213-228: the checks of the upload, secure_filename and file.save
SaveUpload(r) ==
  LET req == requests[r]
      path == secure_filename(req.file.filename)
  IN /\ req.pc = "start"
     /\ IF ~req.file.present
        THEN /\ Update(r, Finish(req, Response(400, Error("No file provided"), None, <<>>, None)))
             /\ UNCHANGED uploads
        ELSE IF req.file.filename = NoName
        THEN /\ Update(r, Finish(req, Response(400, Error("No file selected"), None, <<>>, None)))
             /\ UNCHANGED uploads
        ELSE IF ~allowed_file(req.file.filename)
        THEN /\ Update(r, Finish(req, Response(400, Error("File must be CSV or Excel"), None, <<>>, None)))
             /\ UNCHANGED uploads
        ELSE /\ Update(r, [req EXCEPT !.pc = "saved", !.filepath = path])
             /\ uploads' = [uploads EXCEPT ![path] = Some(req.file.content)]

\* load_data(filepath): what the path holds now; a missing file and bytes
\* that do not parse both come back as an error string
load_data(path) ==
  IF uploads[path] = None \/ ~uploads[path][1].parsable
  THEN [df |-> None, error |-> TRUE]
  ELSE [df |-> Some(uploads[path][1].table), error |-> FALSE]

\* lines 231-233
LoadData(r) ==
  LET req == requests[r]
      loaded == load_data(req.filepath)
      called == [req EXCEPT !.calls = Append(@, "load_data")]
  IN /\ req.pc = "saved"
     /\ IF loaded.error
        THEN Update(r, Finish(called, Response(400, Error("Failed to load file"), None, <<>>, None)))
        ELSE Update(r, [called EXCEPT !.pc = "loaded", !.df = loaded.df])
     /\ UNCHANGED uploads

\* lines 236-238
ValidateData(r) ==
  LET req == requests[r]
      called == [req EXCEPT !.calls = Append(@, "validate_data")]
  IN /\ req.pc = "loaded"
     /\ \E res \in validate_data(req.df[1]) :
          LET returned == [called EXCEPT !.df = res.df, !.errors = res.errors,
                                         !.warnings = res.warnings, !.filled = res.filled]
          IN IF res.errors # <<>>
             THEN Update(r, Finish(returned, Response(400, res.errors, None, <<>>, None)))
             ELSE Update(r, [returned EXCEPT !.pc = "validated"])
     /\ UNCHANGED uploads

\* line 241; an exception ends in the handler's except clause (lines 256-257)
CalculateStatistics(r) ==
  LET req == requests[r]
      called == [req EXCEPT !.calls = Append(@, "calculate_statistics")]
  IN /\ req.pc = "validated"
     /\ IF StatisticsRaises(req.df[1])
        THEN Update(r, Finish(called, Response(500, Error("An error occurred"), None, <<>>, None)))
        ELSE Update(r, [called EXCEPT !.pc = "statistics",
                                      !.stats = Some(calculate_statistics(req.df[1]))])
     /\ UNCHANGED uploads

\* line 244
CreateVisualizations(r) ==
  LET req == requests[r]
      called == [req EXCEPT !.calls = Append(@, "create_visualizations")]
  IN /\ req.pc = "statistics"
     /\ IF VisualizationRaises(req.df[1])
        THEN Update(r, Finish(called, Response(500, Error("An error occurred"), None, <<>>, None)))
        ELSE Update(r, [called EXCEPT !.pc = "visualized",
                                      !.html_plot = Some(create_visualizations(req.df[1]))])
     /\ UNCHANGED uploads

\* lines 247-254: os.remove(filepath) raises when the file is gone
Respond(r) ==
  LET req == requests[r]
  IN /\ req.pc = "visualized"
     /\ IF uploads[req.filepath] = None
        THEN /\ Update(r, Finish(req, Response(500, Error("An error occurred"), None, <<>>, None)))
             /\ UNCHANGED uploads
        ELSE /\ Update(r, Finish(req, Response(200, <<>>, req.stats, req.warnings, req.html_plot)))
             /\ uploads' = [uploads EXCEPT ![req.filepath] = None]

Next ==
  \/ \E r \in Ids : SaveUpload(r)
  \/ \E r \in Ids : LoadData(r)
  \/ \E r \in Ids : ValidateData(r)
  \/ \E r \in Ids : CalculateStatistics(r)
  \/ \E r \in Ids : CreateVisualizations(r)
  \/ \E r \in Ids : Respond(r)

---------------------------------------------------------------------------
(* Inputs *)

Required == {"Date", "Rainfall_mm", "Crop_Growth_cm"}

DateValues == {1, 2}
Measurements == {-1, 0, 1}
Temperatures == {5}

Cells(S) == {Num(v) : v \in S}

\* Start(t) for some table t of at most MaxRows rows, with exactly the
\* required columns or with Temperature_C too
SomeTable(dates, rain, growth, temperature, Start(_)) ==
  \E n \in 0..MaxRows :
    \/ \E rows \in [1..n -> [Date : dates, Rainfall_mm : rain, Crop_Growth_cm : growth]] :
         Start(DataFrame(Required, rows))
    \/ \E rows \in [1..n -> [Date : dates, Rainfall_mm : rain, Crop_Growth_cm : growth,
                             Temperature_C : temperature]] :
         Start(DataFrame(Required \cup {"Temperature_C"}, rows))

EmptyUploads == [p \in Paths |-> None]

\* one request arrives
Arrives(file) ==
  /\ uploads = EmptyUploads
  /\ requests = [r \in {1} |-> Request(file)]

ArrivesCsv(t) == Arrives(File(DataCsv, Parsable(t)))

\* one request: any upload; every cell missing, parsable or unparsable
Init ==
  \/ \E file \in {NoFile, File(NoName, Unparsable), File(NotesTxt, Unparsable),
                  File(DataCsv, Unparsable)} : Arrives(file)
  \/ SomeTable(Cells(DateValues) \cup {NaN, Bad}, Cells(Measurements) \cup {NaN, Bad},
               Cells(Measurements) \cup {NaN, Bad}, Cells(Temperatures) \cup {NaN},
               ArrivesCsv)

Spec == Init /\ [][Next]_vars

\* validate_data alone, on a loaded table
Loaded(t) ==
  /\ requests = [r \in {1} |->
                   [Request(File(DataCsv, Parsable(t))) EXCEPT
                      !.pc = "loaded", !.filepath = DataCsv, !.df = Some(t),
                      !.calls = <<"load_data">>]]
  /\ uploads = [EmptyUploads EXCEPT ![DataCsv] = Some(Parsable(t))]

NextClean == \E r \in Ids : ValidateData(r)

\* ... on the tables with no missing and no unparsable cell
InitClean ==
  SomeTable(Cells(DateValues), Cells(Measurements), Cells(Measurements),
            Cells(Temperatures), Loaded)

SpecClean == InitClean /\ [][NextClean]_vars

\* ... on the tables whose cells are missing or parsable
InitImpute ==
  SomeTable(Cells(DateValues) \cup {NaN}, Cells({-1, 1}) \cup {NaN},
            Cells({-1, 1}) \cup {NaN}, Cells(Temperatures) \cup {NaN}, Loaded)

SpecImpute == InitImpute /\ [][NextClean]_vars

\* one request: a table of parsable cells whose dates spread over four weeks
\* (7 is a Sunday, 8 the Monday after it, 22 the Monday two weeks later)
WeekDates == {7, 8, 22}

InitParsable ==
  SomeTable(Cells(WeekDates), Cells({0, 1, 2}), Cells({1, 3}), Cells(Temperatures),
            ArrivesCsv)

SpecParsable == InitParsable /\ [][Next]_vars

\* one request: a two-row table of parsable cells under any set of column
\* names
SchemaTable(columns) ==
  DataFrame(columns, <<[c \in columns |-> Num(1)], [c \in columns |-> Num(2)]>>)

InitSchema == \E columns \in SUBSET ColumnNames : ArrivesCsv(SchemaTable(columns))

SpecSchema == InitSchema /\ [][Next]_vars

\* two requests in parallel
Clients == {1, 2}

Record(date, rainfall, growth) ==
  [Date |-> Num(date), Rainfall_mm |-> Num(rainfall), Crop_Growth_cm |-> Num(growth)]

ConcurrentContents ==
  {Unparsable,
   Parsable(DataFrame(Required, <<Record(1, -1, 1), Record(2, 1, 0)>>)),
   Parsable(DataFrame(Required, <<Record(1, 0, 0), Record(2, 1, 1)>>))}

InitConcurrent ==
  /\ uploads = EmptyUploads
  /\ \E files \in [Clients -> {File(name, content) :
                                 name \in {DataCsv, MyDataCsv, My_DataCsv},
                                 content \in ConcurrentContents}] :
       requests = [r \in Clients |-> Request(files[r])]

SpecConcurrent == InitConcurrent /\ [][Next]_vars

\* validate_data and calculate_statistics once more, on the cleaned dataset
\* the first calls accepted and gave statistics for
Rerun(r) ==
  LET req == requests[r]
  IN /\ req.stats # None
     /\ req.rerun = None
     /\ \E res \in validate_data(req.df[1]) :
          Update(r, [req EXCEPT !.rerun =
                       Some([errors |-> res.errors, warnings |-> res.warnings,
                             stats |-> IF res.errors # <<>> \/ StatisticsRaises(res.df[1])
                                       THEN None
                                       ELSE Some(calculate_statistics(res.df[1]))])])
     /\ UNCHANGED uploads

NextRoundTrip ==
  \/ Next
  \/ \E r \in Ids : Rerun(r)

SpecRoundTrip == Init /\ [][NextRoundTrip]_vars

---------------------------------------------------------------------------
(* Properties *)

Validated(req) == \E i \in 1..Len(req.calls) : req.calls[i] = "validate_data"

\* validate_data returned a dataset and no error
Accepted(req) == Validated(req) /\ req.errors = <<>>

Uploaded(req) == req.file.content.table

Answered(req) == req.pc = "done"

Count(seq, x) == Cardinality({i \in 1..Len(seq) : seq[i] = x})

\* the same rows, each as many times, in any order
SameRows(a, b) ==
  /\ Len(a) = Len(b)
  /\ \A x \in Range(a) \cup Range(b) : Count(a, x) = Count(b, x)

Kinds(warnings) == [i \in 1..Len(warnings) |-> warnings[i].kind]

\* C1: every record of a dataset that validate_data accepts has a Date, a
\* Rainfall_mm and a Crop_Growth_cm that are not missing, a rainfall >= 0 and
\* a growth >= 0, whatever cells of the input were missing.
C1_CleanedDatasetValid ==
  \A r \in Ids :
    Accepted(requests[r]) =>
      \A i \in Rows(requests[r].df[1]) :
        LET row == requests[r].df[1].rows[i]
        IN /\ \A c \in Required : IsNum(row[c])
           /\ row["Rainfall_mm"].v >= 0
           /\ row["Crop_Growth_cm"].v >= 0

\* the fatal conditions of an upload that passed the checks of its name
FatalAtLoad(file) == ~file.content.parsable

FatalAtSchema(t) == \E F \in Required : F \notin t.columns /\ similar(F, t.columns) = {}

FatalAtCoercion(t) ==
  \E c \in Required \cap t.columns : \E i \in Rows(t) : t.rows[i][c] = Bad

ReachesPipeline(file) ==
  file.present /\ file.filename # NoName /\ allowed_file(file.filename)

Called(req, stage) == \E i \in 1..Len(req.calls) : req.calls[i] = stage

\* only conditions the cleaner repairs: the table has a record, every
\* required column is there and holds a value to impute from, every cell
\* parses
OnlyNonFatal(file) ==
  /\ file.content.parsable
  /\ file.content.table.rows # <<>>
  /\ ~FatalAtSchema(file.content.table)
  /\ Required \subseteq file.content.table.columns
  /\ ~FatalAtCoercion(file.content.table)
  /\ \A c \in Required : \E i \in Rows(file.content.table) :
       ~isnull(file.content.table.rows[i][c])

\* C2: once a fatal condition occurs at loading, schema validation or type
\* coercion no later stage runs and the answer is one error with no stats
\* and no plot; a run with only non-fatal conditions (imputed cells, clamped
\* rainfall, dropped growth rows) is not aborted and ends in a successful
\* answer that carries the recorded warnings.
C2_FatalAbortsNonFatalSucceeds ==
  \A r \in Ids :
    LET req == requests[r]
        file == req.file
        fatal == \/ FatalAtLoad(file)
                 \/ FatalAtSchema(file.content.table)
                 \/ FatalAtCoercion(file.content.table)
    IN Answered(req) /\ ReachesPipeline(file) =>
         /\ fatal =>
              /\ ~req.response[1].success
              /\ req.response[1].error # <<>>
              /\ req.response[1].stats = None
              /\ req.response[1].plot = None
              /\ ~Called(req, "calculate_statistics")
              /\ ~Called(req, "create_visualizations")
              /\ FatalAtLoad(file) => ~Called(req, "validate_data")
         /\ OnlyNonFatal(file) =>
              /\ req.response[1].success
              /\ req.response[1].warnings = req.warnings

\* a column resolves the required name F: it equals F, or its normalized
\* name contains the normalized F
Resolves(F, columns) ==
  \/ F \in columns
  \/ \E col \in columns : contains(normalize(Chars(F)), normalize(Chars(col)))

\* C3: validation fails with a schema error naming F exactly when no column
\* equals or fuzzy-matches F; when the three required names resolve, one of
\* them by fuzzy match only included, the pipeline goes on to cleaning and
\* raises no error because of the column names.
C3_SchemaResolution ==
  \A r \in Ids :
    LET req == requests[r]
        columns == Uploaded(req).columns
    IN Validated(req) =>
         /\ \A F \in Required :
              (\E i \in 1..Len(req.errors) :
                 req.errors[i] = [kind |-> "Missing required column", arg |-> F])
              <=> ~Resolves(F, columns)
         /\ (\A F \in Required : Resolves(F, columns)) =>
              req.errors = <<>> /\ req.df # None

NoMissingOrUnparsable(t) ==
  \A i \in Rows(t) : \A c \in Required : IsNum(t.rows[i][c])

\* the input rows whose growth is >= 0, in input order, rainfall max(r, 0)
Retained(t) ==
  LET kept == SelectSeq(t.rows, LAMBDA row : row["Crop_Growth_cm"].v >= 0)
  IN [i \in 1..Len(kept) |->
        [kept[i] EXCEPT !["Rainfall_mm"] = Num(IF @.v >= 0 THEN @.v ELSE 0)]]

\* C4: for an input with no missing or unparsable cell the cleaned dataset
\* holds exactly the input rows whose growth is >= 0, each with its growth
\* and with rainfall max(rainfall, 0); one clamping warning is recorded iff
\* some input rainfall was negative, one dropping warning iff some input
\* growth was negative.
C4_OutlierPolicy ==
  \A r \in Ids :
    LET req == requests[r]
        t == Uploaded(req)
    IN Validated(req) /\ Required \subseteq t.columns /\ NoMissingOrUnparsable(t) =>
         /\ req.errors = <<>>
         /\ req.df # None
         /\ SameRows(req.df[1].rows, Retained(t))
         /\ Count(Kinds(req.warnings), "negative rainfall") =
              (IF \E i \in Rows(t) : t.rows[i]["Rainfall_mm"].v < 0 THEN 1 ELSE 0)
         /\ Count(Kinds(req.warnings), "negative growth") =
              (IF \E i \in Rows(t) : t.rows[i]["Crop_Growth_cm"].v < 0 THEN 1 ELSE 0)
         /\ Len(req.warnings) = Count(Kinds(req.warnings), "negative rainfall")
                                + Count(Kinds(req.warnings), "negative growth")

\* a row with negative rainfall was kept and clamped, a row with negative
\* growth was dropped, both warnings were recorded
C4_Witness ==
  \E r \in Ids :
    LET req == requests[r]
        t == Uploaded(req)
    IN /\ Validated(req) /\ NoMissingOrUnparsable(t)
       /\ t.rows = <<Record(1, -1, 1), Record(2, 1, -1)>>
       /\ req.df = Some(DataFrame(Required, <<Record(1, 0, 1)>>))
       /\ Kinds(req.warnings) = <<"negative rainfall", "negative growth">>

\* the rows in date order, rows of equal date in their order in rows
StableByDate(rows) ==
  LET p == CHOOSE q \in Permutations1(Len(rows)) :
             \A i, j \in 1..Len(rows) :
               i < j => \/ rows[q[i]]["Date"].v < rows[q[j]]["Date"].v
                        \/ /\ rows[q[i]]["Date"].v = rows[q[j]]["Date"].v
                           /\ q[i] < q[j]
  IN [i \in 1..Len(rows) |-> rows[p[i]]]

\* C5: the dates of the cleaned dataset are non-decreasing and two retained
\* rows of equal date stand in the order they had in the input.
C5_SortedStable ==
  \A r \in Ids :
    LET req == requests[r]
        t == Uploaded(req)
    IN Accepted(req) /\ NoMissingOrUnparsable(t) =>
         /\ \A i \in 1..(Len(req.df[1].rows) - 1) :
              req.df[1].rows[i]["Date"].v <= req.df[1].rows[i + 1]["Date"].v
         /\ req.df[1].rows = StableByDate(Retained(t))

\* C6: validate_data and calculate_statistics run again on the cleaned
\* dataset of an input the pipeline answered with success give no warning, no
\* error and the statistics of the first run.
C6_RerunIdempotent ==
  \A r \in Ids :
    LET req == requests[r]
    IN req.rerun # None /\ Answered(req) /\ req.response[1].success =>
         /\ req.rerun[1].warnings = <<>>
         /\ req.rerun[1].errors = <<>>
         /\ req.rerun[1].stats = req.stats

\* what analyze answers to an upload when no other request runs
Alone(file) ==
  LET failed(code) == [code |-> code, success |-> FALSE, stats |-> None, warnings |-> <<>>]
      res == CHOOSE x \in validate_data(file.content.table) : TRUE
  IN IF ~ReachesPipeline(file) \/ ~file.content.parsable THEN failed(400)
     ELSE IF res.errors # <<>> THEN failed(400)
     ELSE IF StatisticsRaises(res.df[1]) \/ VisualizationRaises(res.df[1]) THEN failed(500)
     ELSE [code |-> 200, success |-> TRUE,
           stats |-> Some(calculate_statistics(res.df[1])), warnings |-> res.warnings]

\* C7: under every interleaving of requests in parallel, requests whose
\* files have the same secured name included, each request is answered as
\* it would be alone on its own upload.
C7_AnsweredAsAlone ==
  \A r \in Ids :
    LET req == requests[r]
    IN Answered(req) =>
         [code |-> req.response[1].code, success |-> req.response[1].success,
          stats |-> req.response[1].stats, warnings |-> req.response[1].warnings]
         = Alone(req.file)

\* C8: a cleaned dataset of fewer than 2 records makes the correlation step
\* fail, and no successful answer carries an undefined (NaN) correlation.
C8_NoUndefinedCorrelation ==
  \A r \in Ids :
    LET req == requests[r]
    IN Answered(req) =>
         /\ Accepted(req) /\ Len(req.df[1].rows) < 2 => ~req.response[1].success
         /\ req.response[1].success => IsNum(req.response[1].stats[1].correlation)

\* what a missing cell of column c at row i should become: the nearest
\* non-missing cell above it, else the nearest below it, else it stays
\* missing
Imputed(t, i, c) ==
  LET above == {j \in Rows(t) : j < i /\ ~isnull(t.rows[j][c])}
      below == {j \in Rows(t) : j > i /\ ~isnull(t.rows[j][c])}
  IN IF ~isnull(t.rows[i][c]) THEN t.rows[i][c]
     ELSE IF above # {} THEN t.rows[CHOOSE j \in above : \A h \in above : h <= j][c]
     ELSE IF below # {} THEN t.rows[CHOOSE j \in below : \A h \in below : j <= h][c]
     ELSE NaN

\* the cells of columns that were missing in t and are not in filled
FilledCells(t, filled, columns) ==
  {<<i, c>> \in Rows(t) \X columns : isnull(t.rows[i][c]) /\ ~isnull(filled.rows[i][c])}

MissingCells(t, columns) == {<<i, c>> \in Rows(t) \X columns : isnull(t.rows[i][c])}

MissingWarnings(warnings) == SelectSeq(warnings, LAMBDA w : w.kind = "missing values")

Weekly(req) == req.html_plot[1].weekly

\* the rainfall of the records of df dated in the 7 days that end on w
WindowRainfall(df, w) ==
  SumOver({i \in Rows(df) : w - 7 < df.rows[i]["Date"].v /\ df.rows[i]["Date"].v <= w},
          [i \in Rows(df) |-> df.rows[i]["Rainfall_mm"].v])

====
